---------------------------- MODULE Spec2Model ----------------------------
(***************************************************************************)
(* A model of the solar-system scene code:                                 *)
(*   - SceneService (src/src/app/scene/scene.service.ts): the constructor  *)
(*     that walks SOLAR_SYSTEM, and the geometry queries;                  *)
(*   - SearchPanelComponent (src/src/app/shell/search-panel/               *)
(*     search-panel.component.ts): the debounced search.                   *)
(*                                                                         *)
(* Numbers.  JavaScript numbers are IEEE-754 doubles.  Two exact number    *)
(* representations are used:                                               *)
(*   - Num: an exact rational with a decimal exponent, (n/d) * 10^k.       *)
(*     Distances, positions and ellipse parameters are carried as Nums,    *)
(*     i.e. in exact real arithmetic, at the angles whose sine and cosine  *)
(*     are rational (the multiples of 90 degrees).                         *)
(*   - Dbl: a bit-exact IEEE-754 double, mantissa in four 18-bit limbs.    *)
(*     The true anomalies sampled by d3.range are carried as Dbls, because *)
(*     the number of samples is decided by the rounding of 360 / nbPoints; *)
(*     getDistanceToFocusPoint is evaluated in Dbls as well as over the    *)
(*     reals, at the angles whose cosine is exactly 1 or -1 as a double.   *)
(***************************************************************************)
EXTENDS Integers, Sequences, FiniteSets, TLC

----------------------------------------------------------------------------
(* Exact rationals with a decimal exponent: [n, d, k] is (n / d) * 10^k.   *)
(* Canonical form: d > 0 has no factor 2 or 5, 10 does not divide n,       *)
(* gcd(n, d) = 1, and zero is [0, 1, 0]; so equal values are equal records.*)
(* d = 0 marks the two values outside the rationals: NaN and Irrational.   *)

Abs(x) == IF x < 0 THEN -x ELSE x

Min(a, b) == IF a < b THEN a ELSE b

RECURSIVE Gcd(_, _)
Gcd(a, b) == IF b = 0 THEN a ELSE Gcd(b, a % b)

RECURSIVE Pow10(_)
Pow10(k) == IF k = 0 THEN 1 ELSE 10 * Pow10(k - 1)

RECURSIVE Canon(_, _, _)
Canon(n, d, k) ==
    IF n = 0 THEN [n |-> 0, d |-> 1, k |-> 0]
    ELSE IF d % 2 = 0 THEN Canon(n * 5, d \div 2, k - 1)
    ELSE IF d % 5 = 0 THEN Canon(n * 2, d \div 5, k - 1)
    ELSE IF n % 10 = 0 THEN Canon(n \div 10, d, k + 1)
    ELSE LET g == Gcd(Abs(n), d) IN [n |-> n \div g, d |-> d \div g, k |-> k]

\* The canonical Num of (n / d) * 10^k, d > 0.
Q(n, d, k) == LET g == Gcd(Abs(n), d) IN Canon(n \div g, d \div g, k)

FromInt(x) == Q(x, 1, 0)

\* What arithmetic on undefined yields in JavaScript.
NaN == [n |-> 0, d |-> 0, k |-> 0]

\* A root that is not rational: a value this arithmetic does not carry.
Irrational == [n |-> 0, d |-> 0, k |-> 1]

IsNum(a) == a.d # 0

\* The result of an operation one of whose operands is not a rational.
Absorb(a, b) == IF a = NaN \/ b = NaN THEN NaN ELSE Irrational

NumNeg(a) == IF IsNum(a) THEN [a EXCEPT !.n = -a.n] ELSE a

NumAdd(a, b) ==
    IF ~(IsNum(a) /\ IsNum(b)) THEN Absorb(a, b)
    ELSE LET k == Min(a.k, b.k)
         IN Q(a.n * Pow10(a.k - k) * b.d + b.n * Pow10(b.k - k) * a.d,
              a.d * b.d, k)

NumSub(a, b) == NumAdd(a, NumNeg(b))

\* Zero times a real that is not carried is still zero.
NumMul(a, b) ==
    IF a = NaN \/ b = NaN THEN NaN
    ELSE IF a = FromInt(0) \/ b = FromInt(0) THEN FromInt(0)
    ELSE IF ~(IsNum(a) /\ IsNum(b)) THEN Irrational
    ELSE Q(a.n * b.n, a.d * b.d, a.k + b.k)

\* x / 0 is an infinity or NaN in JavaScript; no divisor of the model is 0.
NumDiv(a, b) ==
    IF ~(IsNum(a) /\ IsNum(b)) THEN Absorb(a, b)
    ELSE IF b.n = 0 THEN NaN
    ELSE IF b.n < 0 THEN Q(-(a.n * b.d), a.d * (-b.n), a.k - b.k)
    ELSE Q(a.n * b.d, a.d * b.n, a.k - b.k)

NumLess(a, b) == LET s == NumSub(a, b) IN IsNum(s) /\ s.n < 0

\* The natural r with r^p = n, or -1.
Root(n, p) ==
    LET S == {r \in 0..Min(n, 2000) : IF p = 2 THEN r * r = n ELSE r * r * r = n}
    IN IF S = {} THEN -1 ELSE CHOOSE r \in S : TRUE

\* Math.sqrt (p = 2) and Math.cbrt (p = 3).
NumRoot(a, p) ==
    IF ~IsNum(a) THEN a
    ELSE IF a.n < 0 THEN (IF p = 2 THEN NaN ELSE Irrational)
    ELSE IF a.k % p # 0 \/ Root(a.n, p) < 0 \/ Root(a.d, p) < 0 THEN Irrational
    ELSE Q(Root(a.n, p), Root(a.d, p), a.k \div p)

NumSqrt(a) == NumRoot(a, 2)

NumCbrt(a) == NumRoot(a, 3)

\* x ** 2
NumSquare(a) == NumMul(a, a)

----------------------------------------------------------------------------
(* IEEE-754 doubles, bit for bit.  A natural number below 2^72 is a Big:   *)
(* four limbs of 18 bits, most significant first.  A Dbl [neg, m, e] is    *)
(* the double (-1)^neg * m * 2^e with 2^52 <= m < 2^53; zero is m = 0,     *)
(* e = 0.  Only the operations the code applies are defined, and only for  *)
(* the finite, normal values that occur.                                   *)

Base == 2^18

Carry(c1, c2, c3, c4) ==
    LET t3 == c3 + (c4 \div Base)
        t2 == c2 + (t3 \div Base)
        t1 == c1 + (t2 \div Base)
    IN <<t1, t2 % Base, t3 % Base, c4 % Base>>

BigZero == <<0, 0, 0, 0>>

P52 == <<0, 2^16, 0, 0>>

P53 == <<0, 2^17, 0, 0>>

P54 == <<1, 0, 0, 0>>

BigFromInt(x) == Carry(0, 0, 0, x)

\* For a Big below 2^31.
BigToInt(a) == a[3] * Base + a[4]

BigAdd(a, b) == Carry(a[1] + b[1], a[2] + b[2], a[3] + b[3], a[4] + b[4])

\* a - b, for a >= b.
BigSub(a, b) == Carry(a[1] - b[1], a[2] - b[2], a[3] - b[3], a[4] - b[4])

\* a * i, for 0 <= i < 2^12.
BigMulSmall(a, i) == Carry(a[1] * i, a[2] * i, a[3] * i, a[4] * i)

BigOdd(a) == a[4] % 2 = 1

BigHalf(a) ==
    <<a[1] \div 2,
      ((a[1] % 2) * Base + a[2]) \div 2,
      ((a[2] % 2) * Base + a[3]) \div 2,
      ((a[3] % 2) * Base + a[4]) \div 2>>

BigLess(a, b) ==
    \/ a[1] < b[1]
    \/ a[1] = b[1] /\ a[2] < b[2]
    \/ a[1] = b[1] /\ a[2] = b[2] /\ a[3] < b[3]
    \/ a[1] = b[1] /\ a[2] = b[2] /\ a[3] = b[3] /\ a[4] < b[4]

DblZero == [neg |-> FALSE, m |-> BigZero, e |-> 0]

\* Round to nearest, ties to even: the double nearest to
\* (x + g/2 + s*epsilon) * 2^e, g the guard bit and s the sticky bit.
\* When x < 2^52 the value is exact (g and s are clear); a small x is
\* scaled up a whole limb at a time.
RECURSIVE Round(_, _, _, _)
Round(x, e, g, s) ==
    IF x = BigZero THEN DblZero
    ELSE IF ~BigLess(x, P53) THEN Round(BigHalf(x), e + 1, BigOdd(x), s \/ g)
    ELSE IF x[1] = 0 /\ x[2] = 0
         THEN Round(<<0, x[3], x[4], 0>>, e - 18, FALSE, FALSE)
    ELSE IF BigLess(x, P52) THEN Round(BigAdd(x, x), e - 1, FALSE, FALSE)
    ELSE LET y == IF g /\ (s \/ BigOdd(x)) THEN BigAdd(x, BigFromInt(1)) ELSE x
         IN IF y = P53 THEN [neg |-> FALSE, m |-> P52, e |-> e + 1]
            ELSE [neg |-> FALSE, m |-> y, e |-> e]

\* An integer as a double (exact below 2^31).
IntToDbl(i) ==
    [Round(BigFromInt(Abs(i)), 0, FALSE, FALSE) EXCEPT !.neg = (i < 0)]

\* One bit of the long division by the integer n: <<quotient, remainder>>.
DivIntsBit(xr, n) ==
    LET bit == IF 2 * xr[2] >= n THEN 1 ELSE 0
    IN <<BigAdd(BigAdd(xr[1], xr[1]), BigFromInt(bit)), 2 * xr[2] - bit * n>>

\* The long division a / n of integers a >= 0, n > 0, four bits a step,
\* until the quotient has at least 55 bits.
RECURSIVE DivIntsLoop(_, _, _)
DivIntsLoop(xr, e, n) ==
    IF ~BigLess(xr[1], P54) THEN Round(xr[1], e, FALSE, xr[2] # 0)
    ELSE DivIntsLoop(DivIntsBit(DivIntsBit(DivIntsBit(DivIntsBit(xr, n), n), n), n),
                     e - 4, n)

\* The double a / n for integers a >= 0, 0 < n < 2^29 (360 / nbPoints).
DivInts(a, n) ==
    IF a = 0 THEN DblZero ELSE DivIntsLoop(<<BigFromInt(a \div n), a % n>>, 0, n)

\* One bit of the long division by the mantissa m: <<quotient, remainder>>.
DivByDblBit(xr, m) ==
    LET r2  == BigAdd(xr[2], xr[2])
        bit == ~BigLess(r2, m)
    IN <<BigAdd(BigAdd(xr[1], xr[1]), BigFromInt(IF bit THEN 1 ELSE 0)),
         IF bit THEN BigSub(r2, m) ELSE r2>>

RECURSIVE DivByDblLoop(_, _, _)
DivByDblLoop(xr, e, m) ==
    IF ~BigLess(xr[1], P54) THEN Round(xr[1], e, FALSE, xr[2] # BigZero)
    ELSE DivByDblLoop(DivByDblBit(DivByDblBit(DivByDblBit(DivByDblBit(xr, m), m), m), m),
                      e - 4, m)

\* The double a / d for an integer 0 <= a < 2^31 and a double d > 0.
DivIntByDbl(a, d) ==
    IF a = 0 THEN DblZero ELSE DivByDblLoop(<<BigZero, BigFromInt(a)>>, -d.e, d.m)

\* The double i * d for an integer 0 <= i < 2^12 and a double d >= 0.
MulIntDbl(i, d) == Round(BigMulSmall(d.m, i), d.e, FALSE, FALSE)

\* <<floor(x * 2^e), whether a nonzero bit was shifted out>>, for e <= 0;
\* a whole limb at a time while e <= -18.
RECURSIVE ShiftOut(_, _, _)
ShiftOut(x, e, sticky) ==
    IF e >= 0 \/ x = BigZero THEN <<x, sticky>>
    ELSE IF e <= -18 THEN ShiftOut(<<0, x[1], x[2], x[3]>>, e + 18, sticky \/ x[4] # 0)
    ELSE ShiftOut(BigHalf(x), e + 1, sticky \/ BigOdd(x))

\* Math.ceil of a double 0 <= d < 2^31, as an integer.
DblCeil(d) ==
    LET r == ShiftOut(d.m, d.e, FALSE)
    IN BigToInt(r[1]) + (IF r[2] THEN 1 ELSE 0)

\* Whether the double (of magnitude below 2^31) is an integer, and which.
DblIsInt(d) == ~ShiftOut(d.m, d.e, FALSE)[2]

DblToInt(d) ==
    LET v == BigToInt(ShiftOut(d.m, d.e, FALSE)[1]) IN IF d.neg THEN -v ELSE v

MagLess(a, b) ==
    IF a.m = BigZero THEN b.m # BigZero
    ELSE IF b.m = BigZero THEN FALSE
    ELSE a.e < b.e \/ (a.e = b.e /\ BigLess(a.m, b.m))

DblLess(a, b) ==
    IF a.neg /\ b.neg THEN MagLess(b, a)
    ELSE IF a.neg THEN TRUE
    ELSE IF b.neg THEN FALSE
    ELSE MagLess(a, b)

\* The sign of the double a - b (the subtraction of two finite doubles is
\* zero only when they are equal).
DblSubSign(a, b) == IF DblLess(a, b) THEN -1 ELSE IF DblLess(b, a) THEN 1 ELSE 0

\* Two values outside the finite doubles: NaN, and a double this arithmetic
\* does not carry.
DblNaN == [neg |-> FALSE, m |-> BigZero, e |-> 2]

DblUnknown == [neg |-> FALSE, m |-> BigZero, e |-> 1]

IsDbl(a) == a.m # BigZero \/ a.e = 0

DblAbsorb(a, b) == IF a = DblNaN \/ b = DblNaN THEN DblNaN ELSE DblUnknown

DblNeg(a) == IF a.m = BigZero THEN a ELSE [a EXCEPT !.neg = ~a.neg]

DblAbs(a) == [a EXCEPT !.neg = FALSE]

\* x * 2^d
RECURSIVE BigShl(_, _)
BigShl(x, d) == IF d = 0 THEN x ELSE BigShl(BigAdd(x, x), d - 1)

\* |a| + |b| rounded, for nonzero a and b with a.e >= b.e; computed for
\* exponents at most 18 (a limb) apart.
MagAdd(a, b) ==
    IF a.e - b.e > 18 THEN DblUnknown
    ELSE Round(BigAdd(BigShl(a.m, a.e - b.e), b.m), b.e, FALSE, FALSE)

\* |a| - |b| rounded, for nonzero a and b with |a| > |b|.
MagSub(a, b) ==
    IF a.e - b.e > 18 THEN DblUnknown
    ELSE Round(BigSub(BigShl(a.m, a.e - b.e), b.m), b.e, FALSE, FALSE)

\* a + b
DblAdd(a, b) ==
    IF ~(IsDbl(a) /\ IsDbl(b)) THEN DblAbsorb(a, b)
    ELSE IF a.m = BigZero THEN b
    ELSE IF b.m = BigZero THEN a
    ELSE IF a.neg = b.neg
         THEN LET r == IF a.e >= b.e THEN MagAdd(a, b) ELSE MagAdd(b, a)
              IN IF IsDbl(r) THEN [r EXCEPT !.neg = a.neg] ELSE r
    ELSE IF MagLess(a, b)
         THEN LET r == MagSub(b, a) IN IF IsDbl(r) THEN [r EXCEPT !.neg = b.neg] ELSE r
    ELSE IF MagLess(b, a)
         THEN LET r == MagSub(a, b) IN IF IsDbl(r) THEN [r EXCEPT !.neg = a.neg] ELSE r
    ELSE DblZero

\* a - b
DblSub(a, b) == DblAdd(a, DblNeg(b))

\* A natural number below 2^108 in six limbs of 18 bits.
Carry6(c1, c2, c3, c4, c5, c6) ==
    LET t5 == c5 + (c6 \div Base)
        t4 == c4 + (t5 \div Base)
        t3 == c3 + (t4 \div Base)
        t2 == c2 + (t3 \div Base)
        t1 == c1 + (t2 \div Base)
    IN <<t1, t2 % Base, t3 % Base, t4 % Base, t5 % Base, c6 % Base>>

\* The six 9-bit digits of a mantissa, most significant first.
Digits9(m) ==
    <<m[2] \div 512, m[2] % 512, m[3] \div 512, m[3] % 512,
      m[4] \div 512, m[4] % 512>>

\* w * 2^9 + x * c, for a mantissa x and a digit c.
MulStep(w, x, c) ==
    Carry6(w[1] * 512, w[2] * 512, w[3] * 512,
           w[4] * 512 + x[2] * c, w[5] * 512 + x[3] * c, w[6] * 512 + x[4] * c)

\* The product of two mantissas, a digit of ds at a time.
RECURSIVE MulLoop(_, _, _, _)
MulLoop(w, x, ds, i) ==
    IF i > Len(ds) THEN w ELSE MulLoop(MulStep(w, x, ds[i]), x, ds, i + 1)

\* a * b
DblMul(a, b) ==
    IF ~(IsDbl(a) /\ IsDbl(b)) THEN DblAbsorb(a, b)
    ELSE IF a.m = BigZero \/ b.m = BigZero THEN DblZero
    ELSE LET w == MulLoop(<<0, 0, 0, 0, 0, 0>>, a.m, Digits9(b.m), 1)
             r == Round(<<w[1], w[2], w[3], w[4]>>, a.e + b.e + 36, FALSE,
                        w[5] # 0 \/ w[6] # 0)
         IN [r EXCEPT !.neg = (a.neg # b.neg)]

\* a / b, for b # 0
DblDiv(a, b) ==
    IF ~(IsDbl(a) /\ IsDbl(b)) THEN DblAbsorb(a, b)
    ELSE IF b.m = BigZero THEN DblUnknown
    ELSE IF a.m = BigZero THEN DblZero
    ELSE LET ge == ~BigLess(a.m, b.m)
             r  == DivByDblLoop(<<BigFromInt(IF ge THEN 1 ELSE 0),
                                  IF ge THEN BigSub(a.m, b.m) ELSE a.m>>,
                                a.e - b.e, b.m)
         IN [r EXCEPT !.neg = (a.neg # b.neg)]

\* The double a numeric literal of the data denotes: the double nearest to
\* the Num, for a numerator and a denominator below 2^29.
NumToDbl(a) ==
    IF a = NaN THEN DblNaN
    ELSE IF ~IsNum(a) THEN DblUnknown
    ELSE LET up   == IF a.k > 0 THEN Pow10(a.k) ELSE 1
             down == IF a.k < 0 THEN Pow10(-a.k) ELSE 1
             r    == DivInts(Abs(a.n) * up, a.d * down)
         IN [r EXCEPT !.neg = (a.n < 0)]

\* d3.range(0, stop, step): n = Math.max(0, Math.ceil((stop - 0) / step)) | 0
\* and range[i] = 0 + i * step for i = 0 .. n - 1.
d3range(stop, step) ==
    LET n == LET c == DblCeil(DivIntByDbl(stop, step)) IN IF c < 0 THEN 0 ELSE c
    IN [i \in 1..n |-> MulIntDbl(i - 1, step)]

----------------------------------------------------------------------------
(* Trigonometry.  Math.cos and Math.sin of an angle in degrees (the code   *)
(* multiplies by DEG_TO_RAD first) are carried exactly where they are      *)
(* rational: at the multiples of 90 degrees.  Elsewhere the value is a     *)
(* real the model does not carry (Irrational).                             *)

OnAxis(ta) == IsDbl(ta) /\ DblIsInt(ta) /\ DblToInt(ta) % 90 = 0

CosDeg(ta) ==
    IF ta = DblNaN THEN NaN
    ELSE IF ~OnAxis(ta) THEN Irrational
    ELSE LET t == DblToInt(ta) % 360
         IN FromInt(IF t = 0 THEN 1 ELSE IF t = 180 THEN -1 ELSE 0)

SinDeg(ta) ==
    IF ta = DblNaN THEN NaN
    ELSE IF ~OnAxis(ta) THEN Irrational
    ELSE LET t == DblToInt(ta) % 360
         IN FromInt(IF t = 90 THEN 1 ELSE IF t = 270 THEN -1 ELSE 0)

\* Numbers r + s * sqrt(3), for the 60 degree rotations of the Lagrange
\* points: cos(60) = 1/2, sin(60) = sqrt(3)/2.
Surd(r, s) == [r |-> r, s |-> s]

Rational(r) == Surd(r, FromInt(0))

Cos60 == Surd(Q(1, 2, 0), FromInt(0))

Sin60 == Surd(FromInt(0), Q(1, 2, 0))

SurdNeg(a) == Surd(NumNeg(a.r), NumNeg(a.s))

SurdAdd(a, b) == Surd(NumAdd(a.r, b.r), NumAdd(a.s, b.s))

\* The product of a rational and a surd.
SurdScale(q, a) == Surd(NumMul(q, a.r), NumMul(q, a.s))

----------------------------------------------------------------------------
(* The catalog.  The data files (scene/data/*.data.ts) and scene.model.ts  *)
(* are not part of the sources at hand; the catalog is modelled from the   *)
(* specification: a rooted tree of bodies, listed parent first, the        *)
(* primary 'sun' at the origin with no orbit of its own.                   *)

SUN == "sun"

EARTH == "earth"

\* The bodies of SOLAR_SYSTEM.
CatalogIds == {SUN, EARTH, "moon", "jupiter"}

\* A body a caller builds itself: its orbited body "host" is in no catalog
\* and has no position.
Ids == CatalogIds \cup {"probe", "host"}

\* body.orbitBody; "" is undefined.
orbitBody(b) ==
    CASE b = EARTH     -> SUN
      [] b = "moon"    -> EARTH
      [] b = "jupiter" -> SUN
      [] b = "probe"   -> "host"
      [] OTHER         -> ""

\* An optional value: <<>> is undefined, <<v>> is v.
Undefined == <<>>

Some(v) == <<v>>

Defined(o) == o # <<>>

Val(o) == o[1]

\* The number an optional number of degrees is in arithmetic: undefined
\* is NaN.
ToDbl(ta) == IF Defined(ta) THEN IntToDbl(Val(ta)) ELSE DblNaN

Point(x, y) == [x |-> x, y |-> y]

\* The orbital elements of one body; the numbers a primary lacks are NaN
\* in arithmetic.
Elements(a, e, meanAnomaly, mass) ==
    [semiMajorAxis |-> a, eccentricity |-> e, meanAnomaly |-> meanAnomaly,
     mass |-> mass]

NoOrbit(mass) == Elements(NaN, NaN, Undefined, mass)

\* The data sets the catalog is drawn from: semi-major axes in km, masses
\* in kg, eccentricities 0, 3/5 and 4/5, mean anomalies from below 0 to
\* above 360 degrees.
Dataset(earth, moon, jupiter) ==
    [b \in Ids |->
        CASE b = SUN       -> NoOrbit(Q(1, 1, 30))
          [] b = EARTH     -> Elements(Q(15, 1, 7), earth[1], Some(earth[2]), Q(3, 1, 27))
          [] b = "moon"    -> Elements(Q(4, 1, 5), moon[1], Some(moon[2]), Q(7, 1, 22))
          [] b = "jupiter" -> Elements(Q(75, 1, 7), jupiter[1], Some(jupiter[2]), Q(2, 1, 27))
          [] b = "probe"   -> Elements(Q(2, 1, 6), Q(3, 5, 0), Some(90), Q(1, 1, 3))
          [] OTHER         -> NoOrbit(Q(1, 1, 20))]

Datasets ==
    { Dataset(<<FromInt(0), 450>>, <<Q(3, 5, 0), -90>>, <<Q(4, 5, 0), 180>>),
      Dataset(<<Q(3, 5, 0), 90>>, <<FromInt(0), 360>>, <<FromInt(0), 0>>),
      Dataset(<<Q(4, 5, 0), -180>>, <<Q(4, 5, 0), 270>>, <<Q(3, 5, 0), 720>>) }

\* Every parent is listed before its children.
ParentFirst(s) ==
    \A i \in 1..Len(s) :
        orbitBody(s[i]) # "" => \E j \in 1..(i - 1) : s[j] = orbitBody(s[i])

Orders ==
    { s \in [1..Cardinality(CatalogIds) -> CatalogIds] :
        /\ \A i, j \in DOMAIN s : s[i] = s[j] => i = j
        /\ ParentFirst(s) }

----------------------------------------------------------------------------
(* State.                                                                  *)

VARIABLES
    SOLAR_SYSTEM,    \* the catalog: the body ids in the order of the array
    elements,        \* id -> the orbital elements the data files give
    trueAnomaly,     \* id -> body.trueAnomaly (degrees), optional
    position,        \* id -> body.position, optional
    lagrangePoints,  \* id -> body.lagrangePoints; <<>> is undefined
    pc,              \* where the SceneService constructor is
    idx,             \* the next element of the filtered array in forEach
    lagrangeCalls,   \* how often getEarthLagrangePoints has run
    call,            \* the last geometry query: its name and arguments
    ret,             \* what the last geometry query returned or threw
    search,          \* SearchPanelComponent.search
    searchResult,    \* SearchPanelComponent.searchResult; <<>> is null
    subscribed,      \* whether ngOnInit has subscribed to searchChanged
    timer,           \* debounceTime: ms left until the emission, optional
    quiet,           \* ms since the last searchChanged.next(), capped
    updates          \* the searchResult updates of the current burst

sceneVars ==
    <<SOLAR_SYSTEM, elements, trueAnomaly, position, lagrangePoints, pc, idx,
      lagrangeCalls, call, ret>>

searchVars == <<search, searchResult, subscribed, timer, quiet, updates>>

vars == <<sceneVars, searchVars>>

\* The catalog as the queries may change it.
catalogVars == <<SOLAR_SYSTEM, elements, trueAnomaly, position, lagrangePoints>>

----------------------------------------------------------------------------
(* SceneService: the geometry queries.                                     *)

KM_TO_PX == 100000

Return(v) == [kind |-> "return", value |-> v]

\* The thrown value is an Error object; name is its name.
Throw(e) == [kind |-> "throw", value |-> [name |-> e]]

\* 1 + e * cos(trueAnomaly)
Denominator(b, ta) ==
    NumAdd(FromInt(1), NumMul(elements[b].eccentricity, CosDeg(ta)))

\* The distance without the square of the eccentricity.
getDistanceToFocusPointUnsquared(b, ta) ==
    NumDiv(NumMul(elements[b].semiMajorAxis,
                  NumSub(FromInt(1), elements[b].eccentricity)),
           Denominator(b, ta))

getDistanceToFocusPoint(b, ta) ==
    NumDiv(NumMul(elements[b].semiMajorAxis,
                  NumSub(FromInt(1), NumSquare(elements[b].eccentricity))),
           Denominator(b, ta))

\* Math.cos(trueAnomaly * DEG_TO_RAD) as a double, where it is exactly 1
\* or -1: at the multiples of 180 degrees.
CosDegDbl(ta) ==
    IF ta = DblNaN THEN DblNaN
    ELSE IF ~(OnAxis(ta) /\ DblToInt(ta) % 180 = 0) THEN DblUnknown
    ELSE IntToDbl(IF DblToInt(ta) % 360 = 0 THEN 1 ELSE -1)

\* The same expression in IEEE-754 doubles, bit for bit.
getDistanceToFocusPointDbl(b, ta) ==
    LET a == NumToDbl(elements[b].semiMajorAxis)
        e == NumToDbl(elements[b].eccentricity)
    IN DblDiv(DblMul(a, DblSub(IntToDbl(1), DblMul(e, e))),
              DblAdd(IntToDbl(1), DblMul(e, CosDegDbl(ta))))

\* body.orbitBody.position cannot be read: body.orbitBody is undefined or
\* its position is.
ParentUnresolved(b) ==
    orbitBody(b) = "" \/ ~Defined(position[orbitBody(b)])

getPositionForTrueAnomaly(b, ta) ==
    LET d   == getDistanceToFocusPoint(b, ta)
        yKm == NumMul(NumNeg(d), SinDeg(ta))
        xKm == NumMul(d, CosDeg(ta))
    IN IF ParentUnresolved(b) THEN Throw("TypeError")
       ELSE LET parent == Val(position[orbitBody(b)])
            IN Return(Point(NumAdd(NumDiv(xKm, FromInt(KM_TO_PX)), parent.x),
                            NumAdd(NumDiv(yKm, FromInt(KM_TO_PX)), parent.y)))

Ellipse(cx, cy, rx, ry) == [cx |-> cx, cy |-> cy, rx |-> rx, ry |-> ry]

\* The ellipse with its centre a whole semi-major axis from the orbited
\* body.
getOrbitEllipseAtSemiMajorAxis(b) ==
    LET a == elements[b].semiMajorAxis
        e == elements[b].eccentricity
    IN IF ParentUnresolved(b) THEN Throw("TypeError")
       ELSE LET parent == Val(position[orbitBody(b)])
            IN Return(Ellipse(
                 NumSub(parent.x, NumDiv(a, FromInt(KM_TO_PX))),
                 parent.y,
                 NumDiv(a, FromInt(KM_TO_PX)),
                 NumDiv(NumSqrt(NumMul(NumSquare(a),
                                       NumSub(FromInt(1), NumSquare(e)))),
                        FromInt(KM_TO_PX))))

getOrbitEllipse(b) ==
    LET a == elements[b].semiMajorAxis
        e == elements[b].eccentricity
    IN IF ParentUnresolved(b) THEN Throw("TypeError")
       ELSE LET parent == Val(position[orbitBody(b)])
            IN Return(Ellipse(
                 NumSub(parent.x, NumDiv(NumMul(e, a), FromInt(KM_TO_PX))),
                 parent.y,
                 NumDiv(a, FromInt(KM_TO_PX)),
                 NumDiv(NumSqrt(NumMul(NumSquare(a),
                                       NumSub(FromInt(1), NumSquare(e)))),
                        FromInt(KM_TO_PX))))

OrbitPoint(ta, x, y) == [trueAnomaly |-> ta, x |-> x, y |-> y]

\* The sample counts the queries are called with: the small ones, the
\* default, and one at which 360 / (360 / nbPoints) rounds above nbPoints.
MaxNbPoints == 4

NbPointsInputs == (1..MaxNbPoints) \cup {161, 360}

\* d3.range(0, 360, 360 / nbPoints), computed once per sample count.
Ranges == [n \in NbPointsInputs |-> d3range(360, DivInts(360, n)) \o <<>>]

\* (p1, p2) => p1.trueAnomaly - p2.trueAnomaly, as its sign.
CompareTrueAnomaly(p1, p2) == DblSubSign(p1.trueAnomaly, p2.trueAnomaly)

\* The stable sort by rank: rank[i] is the place of s[i] in the result.
RankSort(s) ==
    LET n == Len(s)
        Before(j, i) ==
            LET c == CompareTrueAnomaly(s[j], s[i])
            IN c < 0 \/ (c = 0 /\ j < i)
        rank == [i \in 1..n |-> 1 + Cardinality({j \in 1..n : Before(j, i)})] \o <<>>
    IN [p \in 1..n |-> s[CHOOSE i \in 1..n : rank[i] = p]]

\* The array as it is before the sort.
Unsorted(s) == s

\* Array.prototype.sort with the comparator above: the stable sort.  When
\* all but the last element are in order already, the stable sort is the
\* insertion of the last element behind the elements not above it.
SortByTrueAnomaly(s) ==
    LET n     == Len(s)
        front == SubSeq(s, 1, n - 1)
        k     == Cardinality({j \in 1..(n - 1) : CompareTrueAnomaly(s[j], s[n]) <= 0})
    IN IF n >= 1 /\ \A i \in 1..(n - 2) : CompareTrueAnomaly(s[i], s[i + 1]) <= 0
       THEN SubSeq(front, 1, k) \o <<s[n]>> \o SubSeq(front, k + 1, n - 1)
       ELSE RankSort(s)

getOrbitPath(b, nbPoints) ==
    LET range == Ranges[nbPoints]
        result ==
            [i \in 1..Len(range) |->
                LET point == getPositionForTrueAnomaly(b, range[i]).value
                IN OrbitPoint(range[i], point.x, point.y)]
    IN \* the first call of the map callback throws, or none does
       IF range # <<>> /\ getPositionForTrueAnomaly(b, range[1]).kind = "throw"
       THEN Throw("TypeError")
       ELSE IF ~Defined(position[b]) THEN Throw("TypeError")
       ELSE Return(SortByTrueAnomaly(
              result \o <<OrbitPoint(IntToDbl(Val(trueAnomaly[b])),
                                     Val(position[b]).x, Val(position[b]).y)>>))

LagrangePoint(x, y, type) == [x |-> x, y |-> y, type |-> type]

\* The five points for the earth at (ex, ey) with mass em, the sun of mass
\* sm at (0, 0).
LagrangePoints(ex, ey, em, sm) ==
    LET distance == NumSqrt(NumAdd(NumSquare(ex), NumSquare(ey)))
        r  == NumMul(distance, NumCbrt(NumDiv(em, NumMul(FromInt(3), sm))))
        r3 == NumMul(distance,
                     NumDiv(NumMul(FromInt(7), em), NumMul(FromInt(12), sm)))
        l1 == LagrangePoint(
                Rational(NumDiv(NumMul(ex, NumSub(distance, r)), distance)),
                Rational(NumDiv(NumMul(ey, NumSub(distance, r)), distance)),
                "L1")
        l2 == LagrangePoint(
                Rational(NumDiv(NumMul(ex, NumAdd(distance, r)), distance)),
                Rational(NumDiv(NumMul(ey, NumAdd(distance, r)), distance)),
                "L2")
        l3 == LagrangePoint(
                Rational(NumDiv(NumNeg(NumMul(ex, NumSub(distance, r3))), distance)),
                Rational(NumDiv(NumNeg(NumMul(ey, NumSub(distance, r3))), distance)),
                "L3")
        l4 == LagrangePoint(
                SurdAdd(SurdScale(ex, Cos60), SurdScale(ey, Sin60)),
                SurdAdd(SurdNeg(SurdScale(ex, Sin60)), SurdScale(ey, Cos60)),
                "L4")
        l5 == LagrangePoint(
                SurdAdd(SurdScale(ex, Cos60), SurdScale(ey, SurdNeg(Sin60))),
                SurdAdd(SurdNeg(SurdScale(ex, SurdNeg(Sin60))), SurdScale(ey, Cos60)),
                "L5")
    IN <<l1, l2, l3, l4, l5>>

\* The tuple returned with its last two points in the other order.
getEarthLagrangePointsL5First ==
    IF ~Defined(position[EARTH]) THEN Throw("TypeError")
    ELSE LET l == LagrangePoints(Val(position[EARTH]).x, Val(position[EARTH]).y,
                                 elements[EARTH].mass, elements[SUN].mass)
         IN Return(<<l[1], l[2], l[3], l[5], l[4]>>)

\* EARTH.position is read; it is undefined until the walk has reached the
\* earth.
getEarthLagrangePoints ==
    IF ~Defined(position[EARTH]) THEN Throw("TypeError")
    ELSE Return(LagrangePoints(Val(position[EARTH]).x, Val(position[EARTH]).y,
                               elements[EARTH].mass, elements[SUN].mass))

----------------------------------------------------------------------------
(* SceneService: the constructor.                                          *)

\* The walk from the end of the array to its start.
FilteredBackwards ==
    LET f == SelectSeq(SOLAR_SYSTEM, LAMBDA b : b # SUN)
    IN [i \in 1..Len(f) |-> f[Len(f) + 1 - i]]

\* SOLAR_SYSTEM.filter((body) => body.id !== 'sun')
Filtered == SelectSeq(SOLAR_SYSTEM, LAMBDA b : b # SUN)

\* The callback with its two statements in the other order: the position
\* is computed from body.trueAnomaly before it is assigned.
ForEachBodyPositionFirst(b) ==
    LET r == getPositionForTrueAnomaly(b, ToDbl(trueAnomaly[b]))
    IN /\ trueAnomaly' = [trueAnomaly EXCEPT ![b] = elements[b].meanAnomaly]
       /\ IF r.kind = "throw"
          THEN pc' = "failed" /\ UNCHANGED <<position, idx>>
          ELSE /\ position' = [position EXCEPT ![b] = Some(r.value)]
               /\ idx' = idx + 1
               /\ pc' = pc

\* The callback of forEach, for the body b.  An exception ends the
\* constructor.
ForEachBody(b) ==
    LET r == getPositionForTrueAnomaly(b, ToDbl(elements[b].meanAnomaly))
    IN /\ trueAnomaly' = [trueAnomaly EXCEPT ![b] = elements[b].meanAnomaly]
       /\ IF r.kind = "throw"
          THEN pc' = "failed" /\ UNCHANGED <<position, idx>>
          ELSE /\ position' = [position EXCEPT ![b] = Some(r.value)]
               /\ idx' = idx + 1
               /\ pc' = pc

ConstructorForEach ==
    /\ pc = "constructor"
    /\ idx <= Len(Filtered)
    /\ ForEachBody(Filtered[idx])
    /\ UNCHANGED <<SOLAR_SYSTEM, elements, lagrangePoints, lagrangeCalls, call, ret>>
    /\ UNCHANGED searchVars

\* EARTH.lagrangePoints = this.getEarthLagrangePoints();
ConstructorLagrange ==
    /\ pc = "constructor"
    /\ idx > Len(Filtered)
    /\ lagrangeCalls' = lagrangeCalls + 1
    /\ LET r == getEarthLagrangePoints
       IN IF r.kind = "throw"
          THEN pc' = "failed" /\ UNCHANGED lagrangePoints
          ELSE /\ lagrangePoints' = [lagrangePoints EXCEPT ![EARTH] = r.value]
               /\ pc' = "ready"
    /\ UNCHANGED <<SOLAR_SYSTEM, elements, trueAnomaly, position, idx, call, ret>>
    /\ UNCHANGED searchVars

----------------------------------------------------------------------------
(* The callers of the queries, once the service is constructed.           *)

QueryBodies == CatalogIds \cup {"probe"}

\* Degrees; below 0 and above 360 included.
TrueAnomalyInputs == {-90, 0, 90, 180, 270, 450}

\* The true anomalies a query about b is given: the inputs above and
\* b.trueAnomaly itself (undefined for a body the constructor skipped).
TrueAnomalyArgs(b) == {Some(ta) : ta \in TrueAnomalyInputs} \cup {trueAnomaly[b]}

\* A call: ta is the optional trueAnomaly argument, n is nbPoints or 0.
Call(op, b, ta, n) == [op |-> op, body |-> b, trueAnomaly |-> ta, nbPoints |-> n]

NoCall == Call("", "", Undefined, 0)

NoReturn == Return(<<>>)

\* The number getDistanceToFocusPoint returns: over the reals (km) and as
\* the double the code computes.
Distance(km, double) == [km |-> km, double |-> double]

\* What the call c yields in the current state.
Outcome(c) ==
    CASE c.op = "getDistanceToFocusPoint" ->
            Return(Distance(getDistanceToFocusPoint(c.body, ToDbl(c.trueAnomaly)),
                            getDistanceToFocusPointDbl(c.body, ToDbl(c.trueAnomaly))))
      [] c.op = "getPositionForTrueAnomaly" ->
            getPositionForTrueAnomaly(c.body, ToDbl(c.trueAnomaly))
      [] c.op = "getOrbitEllipse" -> getOrbitEllipse(c.body)
      [] c.op = "getOrbitPath" -> getOrbitPath(c.body, c.nbPoints)
      [] OTHER -> NoReturn

\* A query that keeps the position it computed in body.position.
QueriedCaching(c, r) ==
    /\ pc = "ready"
    /\ call' = c
    /\ ret' = r
    /\ pc' = "returned"
    /\ position' = IF c.op = "getPositionForTrueAnomaly" /\ r.kind = "return"
                   THEN [position EXCEPT ![c.body] = Some(r.value)]
                   ELSE position
    /\ UNCHANGED <<SOLAR_SYSTEM, elements, trueAnomaly, lagrangePoints, idx, lagrangeCalls>>
    /\ UNCHANGED searchVars

\* A caller calls a query and gets its outcome; the query writes nothing.
Queried(c, r) ==
    /\ pc = "ready"
    /\ call' = c
    /\ ret' = r
    /\ pc' = "returned"
    /\ UNCHANGED <<catalogVars, idx, lagrangeCalls>>
    /\ UNCHANGED searchVars

\* The caller goes on; the outcome is dropped.
CallerContinues ==
    /\ pc = "returned"
    /\ call' = NoCall
    /\ ret' = NoReturn
    /\ pc' = "ready"
    /\ UNCHANGED <<catalogVars, idx, lagrangeCalls>>
    /\ UNCHANGED searchVars

CallGetDistanceToFocusPoint(b, ta) ==
    LET c == Call("getDistanceToFocusPoint", b, ta, 0) IN Queried(c, Outcome(c))

CallGetPositionForTrueAnomaly(b, ta) ==
    LET c == Call("getPositionForTrueAnomaly", b, ta, 0) IN Queried(c, Outcome(c))

CallGetOrbitEllipse(b) ==
    LET c == Call("getOrbitEllipse", b, Undefined, 0) IN Queried(c, Outcome(c))

CallGetOrbitPath(b, nbPoints) ==
    LET c == Call("getOrbitPath", b, Undefined, nbPoints) IN Queried(c, Outcome(c))

----------------------------------------------------------------------------
(* SearchPanelComponent: the debounced search.  SearchPanelService is not  *)
(* part of the sources at hand; its filter is modelled as the bodies whose *)
(* id contains the search text, in the order of the array.                 *)

\* debounceTime(300): milliseconds.
DebounceTime == 300

\* The texts the search input takes.
SearchInputs == {"", "u", "ear", "x"}

\* Whether the id contains the text.
Contains(id, text) ==
    CASE text = ""    -> TRUE
      [] text = "u"   -> id \in {SUN, "jupiter"}
      [] text = "ear" -> id = EARTH
      [] OTHER        -> FALSE

\* searchService.filter(SOLAR_SYSTEM, ['id'], text)
filter(text) == SelectSeq(SOLAR_SYSTEM, LAMBDA b : Contains(b, text))

\* What the subscriber assigns to searchResult: null for the empty text,
\* else the filtered array.
SearchResultFor(text) == IF text = "" THEN Undefined ELSE Some(filter(text))

\* The spans of time that pass in one step, in milliseconds.
Delays == {100, 200, 300}

\* searchChanged.next() with a timer that runs on when it is running
\* already.
searchChangedNextKeepsTimer ==
    /\ timer' = IF ~subscribed THEN timer
                ELSE IF Defined(timer) THEN timer ELSE Some(DebounceTime)
    /\ quiet' = 0
    /\ updates' = 0

\* searchChanged.next(): without a subscriber the value is dropped; with
\* the subscription of ngOnInit, debounceTime starts its timer anew.
searchChangedNext ==
    /\ timer' = IF subscribed THEN Some(DebounceTime) ELSE timer
    /\ quiet' = 0
    /\ updates' = 0

\* ngOnInit subscribes to the debounced subject.
ngOnInit ==
    /\ ~subscribed
    /\ subscribed' = TRUE
    /\ UNCHANGED <<search, searchResult, timer, quiet, updates>>
    /\ UNCHANGED sceneVars

\* The parent binds another text to the input: Angular assigns search and
\* calls ngOnChanges with changes.search set.  The first binding comes
\* before ngOnInit.
ngOnChanges(text) ==
    /\ text # search
    /\ search' = text
    /\ searchChangedNext
    /\ UNCHANGED <<searchResult, subscribed>>
    /\ UNCHANGED sceneVars

\* d milliseconds pass, no more than the timer of debounceTime has left.
TimePasses(d) ==
    /\ Defined(timer)
    /\ d <= Val(timer)
    /\ timer' = Some(Val(timer) - d)
    /\ quiet' = Min(quiet + d, DebounceTime)
    /\ UNCHANGED <<search, searchResult, subscribed, updates>>
    /\ UNCHANGED sceneVars

\* The timer has run out: debounceTime emits and the subscriber runs.
Subscriber ==
    /\ timer = Some(0)
    /\ searchResult' = SearchResultFor(search)
    /\ timer' = Undefined
    /\ updates' = updates + 1
    /\ UNCHANGED <<search, subscribed, quiet>>
    /\ UNCHANGED sceneVars

----------------------------------------------------------------------------
(* The specification of the scene.                                         *)

SearchIdle ==
    /\ search = ""
    /\ searchResult = Undefined
    /\ subscribed = FALSE
    /\ timer = Undefined
    /\ quiet = 0
    /\ updates = 0

Init ==
    /\ SOLAR_SYSTEM \in Orders
    /\ elements \in Datasets
    /\ trueAnomaly = [b \in Ids |-> Undefined]
    /\ position = [b \in Ids |-> IF b = SUN THEN Some(Point(FromInt(0), FromInt(0)))
                                 ELSE Undefined]
    /\ lagrangePoints = [b \in Ids |-> <<>>]
    /\ pc = "constructor"
    /\ idx = 1
    /\ lagrangeCalls = 0
    /\ call = NoCall
    /\ ret = NoReturn
    /\ SearchIdle

Next ==
    \/ ConstructorForEach
    \/ ConstructorLagrange
    \/ \E b \in QueryBodies : \E ta \in TrueAnomalyArgs(b) : CallGetDistanceToFocusPoint(b, ta)
    \/ \E b \in QueryBodies : \E ta \in TrueAnomalyArgs(b) : CallGetPositionForTrueAnomaly(b, ta)
    \/ \E b \in QueryBodies : CallGetOrbitEllipse(b)
    \/ \E b \in QueryBodies, n \in NbPointsInputs : CallGetOrbitPath(b, n)
    \/ CallerContinues

Spec == Init /\ [][Next]_vars

----------------------------------------------------------------------------
(* The specification of the search panel.                                  *)

SearchNext ==
    \/ ngOnInit
    \/ \E text \in SearchInputs : ngOnChanges(text)
    \/ \E d \in Delays : TimePasses(d)
    \/ Subscriber

SearchSpec == Init /\ [][SearchNext]_vars

----------------------------------------------------------------------------
(* The properties of the scene.                                            *)

\* The bodies the constructor walks: the catalog without the primary.
Orbiting == CatalogIds \ {SUN}

Constructed == pc \in {"ready", "returned"}

\* The query op has just returned or thrown.
Returned(op) == pc = "returned" /\ call.op = op

OwnPositionQuery(b) ==
    pc = "returned" /\ call = Call("getPositionForTrueAnomaly", b, trueAnomaly[b], 0)

\* C2 as stated: once the constructor is done, for every body of the
\* catalog getPositionForTrueAnomaly(body, body.trueAnomaly) returns
\* body.position.
C2_EveryBody ==
    \A b \in CatalogIds :
        OwnPositionQuery(b) => ret = Return(Val(position[b]))

\* C2 amended: once the constructor is done, for every body of the catalog
\* but the primary getPositionForTrueAnomaly(body, body.trueAnomaly)
\* returns body.position; for the primary, which orbits nothing, the call
\* throws a TypeError.
C2_EveryOrbitingBody ==
    /\ \A b \in Orbiting :
          OwnPositionQuery(b) => ret = Return(Val(position[b]))
    /\ OwnPositionQuery(SUN) => ret = Throw("TypeError")

\* The query has returned the position of the moon at the moon's own true
\* anomaly.
C2_Witness ==
    /\ OwnPositionQuery("moon")
    /\ ret.kind = "return"
    /\ Defined(trueAnomaly["moon"])

\* The place of the body's own sample in a returned path: the places whose
\* sample has the body's true anomaly and position.
OwnSamples(path, b) ==
    {j \in 1..Len(path) :
        path[j] = OrbitPoint(ToDbl(trueAnomaly[b]), Val(position[b]).x,
                             Val(position[b]).y)}

\* The path without its j-th sample.
Without(path, j) ==
    [i \in 1..(Len(path) - 1) |-> IF i < j THEN path[i] ELSE path[i + 1]]

\* C3 as stated: for every positive n, getOrbitPath(body, n) returns
\* exactly n + 1 points: the n regular samples at k * 360 / n for
\* k = 0 .. n - 1, all in [0, 360), and one more sample with the true
\* anomaly and the position of the body.
C3_ExactlyNPlusOne ==
    (Returned("getOrbitPath") /\ ret.kind = "return") =>
        /\ Len(ret.value) = call.nbPoints + 1
        /\ \E j \in OwnSamples(ret.value, call.body) :
              LET regular == Without(ret.value, j)
              IN \A k \in 0..(Len(regular) - 1) :
                    /\ regular[k + 1].trueAnomaly = DivInts(k * 360, call.nbPoints)
                    /\ DblLess(regular[k + 1].trueAnomaly, IntToDbl(360))

\* C4: the sequence getOrbitPath returns is sorted ascending by
\* trueAnomaly: of two consecutive elements the later one never has the
\* smaller trueAnomaly, whatever the trueAnomaly of the body is.
C4_Sorted ==
    (Returned("getOrbitPath") /\ ret.kind = "return") =>
        \A i \in 1..(Len(ret.value) - 1) :
            ~DblLess(ret.value[i + 1].trueAnomaly, ret.value[i].trueAnomaly)

\* A path has been returned for a body whose true anomaly is below 0: its
\* own sample is the first of the path.
C4_Witness ==
    /\ Returned("getOrbitPath")
    /\ ret.kind = "return"
    /\ Val(trueAnomaly[call.body]) < 0
    /\ 1 \in OwnSamples(ret.value, call.body)
    /\ call.nbPoints > 1

\* The position of the body b orbits exists as a body but has no position.
ParentNotComputed(b) == orbitBody(b) # "" /\ ~Defined(position[orbitBody(b)])

\* C5 as stated: a position query for a body whose orbited body has no
\* position yet fails with an UnresolvedDependency error.
C5_UnresolvedDependency ==
    (/\ pc = "returned"
     /\ call.op \in {"getPositionForTrueAnomaly", "getOrbitEllipse", "getOrbitPath"}
     /\ ParentNotComputed(call.body))
        => ret = Throw("UnresolvedDependency")

\* C6: for a body with eccentricity 0 and a positive semi-major axis whose
\* orbited body has a position, getOrbitEllipse returns
\* rx = ry = semiMajorAxis / KM_TO_PX and the position of the orbited body
\* as the centre.
C6_Circle ==
    (/\ Returned("getOrbitEllipse")
     /\ elements[call.body].eccentricity = FromInt(0)
     /\ NumLess(FromInt(0), elements[call.body].semiMajorAxis)
     /\ ~ParentUnresolved(call.body))
        => LET parent == Val(position[orbitBody(call.body)])
               radius == NumDiv(elements[call.body].semiMajorAxis, FromInt(KM_TO_PX))
           IN ret = Return(Ellipse(parent.x, parent.y, radius, radius))

\* The ellipse of the moon on a circular orbit has been returned.
C6_Witness ==
    /\ Returned("getOrbitEllipse")
    /\ call.body = "moon"
    /\ elements["moon"].eccentricity = FromInt(0)
    /\ ret.kind = "return"


\* A body with a semi-major axis above 0 and an eccentricity in [0, 1).
ValidOrbit(b) ==
    /\ NumLess(FromInt(0), elements[b].semiMajorAxis)
    /\ ~NumLess(elements[b].eccentricity, FromInt(0))
    /\ NumLess(elements[b].eccentricity, FromInt(1))

\* getDistanceToFocusPoint has returned for a body on a valid orbit, at the
\* true anomaly ta.
DistanceQuery(ta) ==
    /\ Returned("getDistanceToFocusPoint")
    /\ ValidOrbit(call.body)
    /\ call.trueAnomaly = Some(ta)

\* a * (1 + sign * e) over the reals and in doubles.
Apsis(b, sign) ==
    NumMul(elements[b].semiMajorAxis,
           NumAdd(FromInt(1), NumMul(FromInt(sign), elements[b].eccentricity)))

ApsisDbl(b, sign) ==
    DblMul(NumToDbl(elements[b].semiMajorAxis),
           DblAdd(IntToDbl(1),
                  DblMul(IntToDbl(sign), NumToDbl(elements[b].eccentricity))))

\* |x - y| <= |y| * 2^-50
Close(x, y) ==
    LET diff == DblAbs(DblSub(x, y))
        tol  == DblMul(DblAbs(y), [neg |-> FALSE, m |-> P52, e |-> -102])
    IN IsDbl(diff) /\ ~DblLess(tol, diff)

\* The denominator and the distance are above 0 at the true anomaly of the
\* call, over the reals and in doubles.
PositiveDistance ==
    (Returned("getDistanceToFocusPoint") /\ ValidOrbit(call.body)
        /\ Defined(call.trueAnomaly)) =>
        /\ NumLess(FromInt(0), Denominator(call.body, ToDbl(call.trueAnomaly)))
        /\ NumLess(FromInt(0), ret.value.km)
        /\ IsDbl(ret.value.double) => DblLess(DblZero, ret.value.double)

C8_QueriesWriteNothing ==
    /\ [][Constructed => UNCHANGED catalogVars]_vars
    /\ [](pc = "returned" => ret = Outcome(call))

\* A query has returned on the constructed catalog: a path for jupiter
\* with more points than MaxNbPoints.
C8_Witness ==
    /\ Returned("getOrbitPath")
    /\ ret.kind = "return"
    /\ call.body = "jupiter"
    /\ Len(ret.value) > MaxNbPoints

\* The type tags of a tuple of Lagrange points.
Types(points) == [i \in 1..Len(points) |-> points[i].type]

\* The state of the catalog while and after the constructor runs.
Initialized ==
    /\ pc # "failed"
    /\ pc = "constructor" =>
          /\ lagrangeCalls = 0
          /\ \A b \in Ids : lagrangePoints[b] = <<>>
    /\ Constructed =>
          /\ \A b \in Orbiting :
                /\ Defined(trueAnomaly[b])
                /\ trueAnomaly[b] = elements[b].meanAnomaly
                /\ Defined(position[b])
          /\ trueAnomaly[SUN] = Undefined
          /\ position[SUN] = Some(Point(FromInt(0), FromInt(0)))
          /\ lagrangeCalls = 1
          /\ Types(lagrangePoints[EARTH]) = <<"L1", "L2", "L3", "L4", "L5">>
          /\ \A b \in Ids \ {EARTH} : lagrangePoints[b] = <<>>

\* getEarthLagrangePoints runs when the walk is over and has given the
\* earth its position.
LagrangeAfterWalk ==
    lagrangeCalls' # lagrangeCalls =>
        /\ idx > Len(Filtered)
        /\ Defined(position[EARTH])
        /\ lagrangeCalls' = 1

\* C9: the constructor sets trueAnomaly = meanAnomaly and a position on
\* every body but the primary 'sun', which it leaves as it was; it runs
\* getEarthLagrangePoints exactly once, after the earth has its position,
\* and attaches the result to the earth only: five points tagged L1, L2,
\* L3, L4, L5 in this order.
C9_Initialization == []Initialized /\ [][LagrangeAfterWalk]_vars

\* The constructor has finished: the earth carries its five points.
C9_Witness ==
    /\ pc = "ready"
    /\ call = NoCall
    /\ lagrangeCalls = 1
    /\ Len(lagrangePoints[EARTH]) = 5
    /\ \A b \in Orbiting : Defined(position[b])


\* An update of searchResult by the subscriber.
Updates == updates' = updates + 1

\* C10: after ngOnInit, a burst of changes of the search input is followed
\* by at most one update of searchResult, which comes when no change has
\* arrived for DebounceTime; the update takes the value search has when the
\* debounce fires: null for the empty text, else the filter result for
\* that text.  searchResult changes in no other step.
C10_Debounced ==
    /\ [](updates <= 1)
    /\ [][Updates => /\ subscribed
                     /\ quiet = DebounceTime
                     /\ searchResult' = SearchResultFor(search')]_vars
    /\ [][searchResult' # searchResult => Updates]_vars

\* The subscriber has run for a text that matches no id: the result is the
\* empty array the filter returns, not null.
C10_Witness ==
    /\ subscribed
    /\ updates = 1
    /\ search = "x"
    /\ searchResult = Some(<<>>)
    /\ timer = Undefined

============================================================================
